---- MODULE Spec2Model ----
(***************************************************************************)
(* Model of camilla_remote_control.py: the pipeline description            *)
(* synthesizer (get_channel_map, create_config), the catalog built at      *)
(* startup (MyWindow.create_configs) and the key handlers of MyWindow that *)
(* drive the CamillaDSP engine (volume, mute, balance, menu stepping).     *)
(*                                                                         *)
(* Numbers that are floats with one decimal in the source (dB gains and    *)
(* volumes, the delay in ms) are kept in tenths: -99.5 dB is -995, the     *)
(* 0.5 dB step is 5, the 9.2 ms delay is 92.  Floats without a fractional  *)
(* part (200.0, 10.0, 0.0) are kept as the integer.                        *)
(***************************************************************************)
EXTENDS Integers, Sequences, FiniteSets, TLC

VARIABLES
    pc,                    \* position of the process: __init__ phases, main loop, aborted
    config_map,            \* self.config_map: (config, source) -> validated description
    config_label,          \* text of self.config_label
    source_label,          \* text of self.source_label
    volume_label,          \* text of self.volume_label (see VOL_FORMAT)
    opacity,               \* opacity of self.volume_label
    volume_label_opacity,  \* self.volume_label_opacity, saved by start_mute_timer
    timers,                \* number of pending GLib timeouts running blink_vol
    volume,                \* engine: live volume, tenths of dB
    mute,                  \* engine: live mute flag
    live,                  \* engine: live description
    pushed,                \* history: key of the description last pushed by load_config_object
    last,                  \* history: last key handler run and whether it returned normally
    run,                   \* history: current run of identical successful menu steps
    synth,                 \* call of a module-level function: its arguments, then its result
    home                   \* environment: the home directory os.path.expanduser('~') resolves to

vars == <<pc, config_map, config_label, source_label, volume_label, opacity,
          volume_label_opacity, timers, volume, mute, live, pushed, last, run,
          synth, home>>

---------------------------------------------------------------------------
(* Program constants (module level of the source).                         *)

MIN_VOL == -995
VOL_STEP == 5
PLAYBACK_CHANNELS == 4
CROSSOVER_FREQUENCY == 80
MAINS_DELAY == 92
SAMPLERATE == 44100
PLAYBACK_DEVICE == "hw:CARD=M4,DEV=0"

\* os.path.expanduser('~' + rest), rest starting with '/': the '~' is
\* replaced by the home directory of the user (HOME, else the entry of the
\* password database)
expanduser(rest) == home \o rest

\* os.path.join(a, b) for a relative b and an a that does not end in '/'
join(a, b) == a \o "/" \o b

CONFIG_DIR == expanduser("/my-camilladsp-config")
DRC_FILTER == join(CONFIG_DIR, "filters/drc.wav")

\* the home directories the window is started with
Homes == {"/root", "/home/pi"}

MENU_MAP ==
    [config |-> <<"2.1 DRC", "2.1", "2.0", "Mono">>,
     source |-> <<"Stream", "Phono">>]

(* Bounds of the exploration.                                              *)
MaxVolSteps == 1      \* Spec explores volumes down to MaxVolSteps steps below 0.0 dB
MaxStaleSteps == 2    \* SpecVol, SpecVolGrid: a label up to MaxStaleSteps steps behind
MaxBalanceSteps == 1  \* balance gains are explored down to this many steps below 0.0
MaxTimers == 1        \* pending blink timeouts explored
MaxMonitors == 1      \* the display has 0..MaxMonitors monitors
MaxBlinkTimers == 2   \* pending blink timeouts explored by SpecMute
MaxPlaybackChannels == 5  \* create_config is called with 1..MaxPlaybackChannels channels
MaxMapLen == 2        \* get_channel_map is called with sequences up to this length
MaxMapChannel == 2    \* ... of channel numbers 0..MaxMapChannel

---------------------------------------------------------------------------
(* Helpers for Python sequences.                                           *)

Min(a, b) == IF a <= b THEN a ELSE b

Range(s) == {s[k] : k \in 1..Len(s)}

\* tuple.index(x): position (1-based here) of the first occurrence of x
IndexOf(s, x) == CHOOSE k \in 1..Len(s) : s[k] = x /\ \A j \in 1..(k - 1) : s[j] # x

EmptyDict == [x \in {} |-> x]

---------------------------------------------------------------------------
(* get_channel_map                                                         *)

SourceRule(j, gain) ==
    [channel |-> j, gain |-> gain, inverted |-> FALSE, mute |-> FALSE]

\* mutant: the mono flag ignored, destinations always paired 1:1 with inputs
get_channel_map_zip_always(destinations, input_channels, mono, gain) ==
    [k \in 1..Min(Len(destinations), Len(input_channels)) |->
        [dest |-> destinations[k],
         mute |-> FALSE,
         sources |-> <<SourceRule(input_channels[k], gain)>>]]

get_channel_map(destinations, input_channels, mono, gain) ==
    IF mono
    THEN [k \in 1..Len(destinations) |->
            [dest |-> destinations[k],
             mute |-> FALSE,
             sources |-> [m \in 1..Len(input_channels) |->
                            SourceRule(input_channels[m], gain)]]]
    ELSE [k \in 1..Min(Len(destinations), Len(input_channels)) |->
            [dest |-> destinations[k],
             mute |-> FALSE,
             sources |-> <<SourceRule(input_channels[k], gain)>>]]

---------------------------------------------------------------------------
(* create_config                                                           *)

\* f'drc_{i}' with i the enumerate() index of the input filter
DrcName(i) == "drc_" \o ToString(i)

\* mutant: the two pass-through channels counted as three
Shift2_by_three(seq) == [k \in 1..Len(seq) |-> seq[k] + 3]

\* mutant: the pass-through channels not skipped
Shift2_not_shifted(seq) == seq

\* [i + 2 for i in seq]
Shift2(seq) == [k \in 1..Len(seq) |-> seq[k] + 2]

\* mutant: the correction filter named after the channel number instead of
\* the enumerate() index
InputFilters_by_channel(input_channels, correction) ==
    [k \in 1..Len(input_channels) |->
        [type |-> "Filter",
         channel |-> input_channels[k],
         names |-> IF correction = "DRC"
                   THEN <<"volume", DrcName(input_channels[k])>>
                   ELSE <<"volume">>]]

\* the pre-mix filter steps: one per input channel, 'volume' first, then the
\* DRC filter of that position when correction == 'DRC'
InputFilters(input_channels, correction) ==
    [k \in 1..Len(input_channels) |->
        [type |-> "Filter",
         channel |-> input_channels[k],
         names |-> IF correction = "DRC"
                   THEN <<"volume", DrcName(k - 1)>>
                   ELSE <<"volume">>]]

\* the filter bank entries added by the DRC loop
DrcFilters(input_channels, correction, drc_filter) ==
    IF correction = "DRC"
    THEN [n \in {DrcName(k - 1) : k \in 1..Len(input_channels)} |->
            [type |-> "Conv",
             parameters |-> [type |-> "Wav",
                             filename |-> drc_filter,
                             channel |-> CHOOSE i \in 0..(Len(input_channels) - 1) :
                                            DrcName(i) = n]]]
    ELSE EmptyDict

CrossoverFilters(crossover, delay) ==
    [n \in {"sublowpass", "mainshighpass", "mainsdelay"} |->
        CASE n = "sublowpass" ->
                [type |-> "BiquadCombo",
                 parameters |-> [type |-> "LinkwitzRileyLowpass",
                                 freq |-> crossover, order |-> 8]]
          [] n = "mainshighpass" ->
                [type |-> "BiquadCombo",
                 parameters |-> [type |-> "LinkwitzRileyHighpass",
                                 freq |-> crossover, order |-> 8]]
          [] n = "mainsdelay" ->
                [type |-> "Delay",
                 parameters |-> [delay |-> delay, unit |-> "ms",
                                 subsample |-> FALSE]]]

\* mutant: a step for the first channel only
OutputFilters_first_only(channels, names) ==
    [k \in 1..Min(1, Len(channels)) |->
        [type |-> "Filter", channel |-> channels[k], names |-> names]]

OutputFilters(channels, names) ==
    [k \in 1..Len(channels) |->
        [type |-> "Filter", channel |-> channels[k], names |-> names]]

create_config(routing, input_source, correction, playback_device, playback_channels, samplerate, crossover, delay, drc_filter) ==
    LET destinations == <<0, 1>>
        input_channels == IF input_source # "Stream" THEN Shift2(<<0, 1>>) ELSE <<0, 1>>
        capture_device == IF input_source # "Stream" THEN playback_device ELSE "hw:Loopback,1"
        capture_channels == IF input_source # "Stream" THEN playback_channels ELSE 2
        devices ==
            [adjust_period |-> 10,
             capture |-> [avoid_blocking_read |-> FALSE,
                          channels |-> capture_channels,
                          device |-> capture_device,
                          format |-> "S32LE",
                          retry_on_error |-> FALSE,
                          type |-> "Alsa"],
             capture_samplerate |-> 0,
             chunksize |-> 8192,
             enable_rate_adjust |-> TRUE,
             enable_resampling |-> FALSE,
             playback |-> [channels |-> playback_channels,
                           device |-> playback_device,
                           format |-> "S32LE",
                           type |-> "Alsa"],
             queuelimit |-> 4,
             resampler_type |-> "BalancedAsync",
             samplerate |-> samplerate,
             silence_threshold |-> 0,
             silence_timeout |-> 0,
             target_level |-> 0]
        main_map == IF routing = "Mono"
                    THEN get_channel_map(destinations, input_channels, TRUE, -60)
                    ELSE get_channel_map(destinations, input_channels, FALSE, 0)
        mixer_name == input_source \o "-" \o routing
        has_subs == routing \in {"2.1", "2.2"}
        \* `routing in '2.1'` is a substring test; of the two routings that
        \* reach it only '2.1' is a substring of '2.1'
        sub_destinations == IF routing = "2.1"
                            THEN SubSeq(Shift2(destinations), 1, 1)
                            ELSE Shift2(destinations)
        sub_map == IF routing = "2.1"
                   THEN get_channel_map(sub_destinations, input_channels, TRUE, 0)
                   ELSE get_channel_map(sub_destinations, input_channels, FALSE, 0)
        \* mapping.extend(sub_map) acts on the list object the mixer holds
        mapping == IF has_subs THEN main_map \o sub_map ELSE main_map
        volume_filter == "volume" :> [type |-> "Volume",
                                      parameters |-> [ramp_time |-> 200]]
        drc_filters == DrcFilters(input_channels, correction, drc_filter)
        \* dict item assignment and dict.update: the later value wins
        filters0 == drc_filters @@ volume_filter
        filters == IF has_subs
                   THEN CrossoverFilters(crossover, delay) @@ filters0
                   ELSE filters0
        pipeline == InputFilters(input_channels, correction)
                    \o <<[type |-> "Mixer", name |-> mixer_name]>>
                    \o (IF has_subs
                        THEN OutputFilters(destinations, <<"mainshighpass", "mainsdelay">>)
                             \o OutputFilters(sub_destinations, <<"sublowpass">>)
                        ELSE <<>>)
    IN  [devices |-> devices,
         mixers |-> (mixer_name :> [channels |-> [in |-> capture_channels,
                                                  out |-> playback_channels],
                                    mapping |-> mapping]),
         filters |-> filters,
         pipeline |-> pipeline]

---------------------------------------------------------------------------
(* MyWindow: the catalog                                                   *)

\* config.split() on the labels of MENU_MAP['config']
split(config) ==
    CASE config = "2.1 DRC" -> <<"2.1", "DRC">>
      [] config = "2.1" -> <<"2.1">>
      [] config = "2.0" -> <<"2.0">>
      [] config = "Mono" -> <<"Mono">>

\* mutant: the loop over the sources missing, every config built for the
\* first source only
CatalogKeys_first_source ==
    [k \in 1..Len(MENU_MAP.config) |-> <<MENU_MAP.config[k], MENU_MAP.source[1]>>]

\* the (config, input_source) pairs in the order the loops of create_configs
\* visit them
CatalogKeys ==
    [k \in 1..(Len(MENU_MAP.config) * Len(MENU_MAP.source)) |->
        <<MENU_MAP.config[((k - 1) \div Len(MENU_MAP.source)) + 1],
          MENU_MAP.source[((k - 1) % Len(MENU_MAP.source)) + 1]>>]

\* the description create_configs synthesizes for one pair
camilla_config_obj(config, input_source) ==
    LET words == split(config)
        routing == Head(words)
        correction == IF Len(Tail(words)) > 0 THEN Head(Tail(words)) ELSE ""
    IN  create_config(routing, input_source, correction, PLAYBACK_DEVICE,
                      PLAYBACK_CHANNELS, SAMPLERATE, CROSSOVER_FREQUENCY,
                      MAINS_DELAY, DRC_FILTER)

---------------------------------------------------------------------------
(* The engine before this program has pushed anything: some description    *)
(* that is none of the synthesized ones.                                   *)

EngineBootConfig ==
    [devices |-> EmptyDict, mixers |-> EmptyDict, filters |-> EmptyDict,
     pipeline |-> <<>>]

\* VOL_FORMAT.format(vol), '{:5.1f}', for a volume with one decimal
VolFormat(vol) ==
    LET a == IF vol < 0 THEN -vol ELSE vol
        whole == a \div 10
        text == (IF vol < 0 THEN "-" ELSE "") \o ToString(whole) \o "."
                \o ToString(a % 10)
        width == (IF vol < 0 THEN 1 ELSE 0)
                 + (IF whole >= 100 THEN 3 ELSE IF whole >= 10 THEN 2 ELSE 1) + 2
        pad == CASE width >= 5 -> ""
                 [] width = 4 -> " "
                 [] width = 3 -> "  "
    IN  pad \o text

\* history record of a key handler: its name, whether it returned normally,
\* and (menu keys) whether its push replaced a live description that carried
\* a non-zero balance gain
Handled(op, ok) == [op |-> op, ok |-> ok, discarded |-> FALSE]
NoHandler == Handled("none", TRUE)
NoRun == [op |-> "none", n |-> 0, config |-> "", source |-> ""]
NoCall == [op |-> "none"]

\* the window before __init__ has run, the engine at one of the given volumes
ProgramInit(volumes) ==
    /\ pc = "connect"
    /\ config_map = EmptyDict
    /\ config_label = ""
    /\ source_label = ""
    /\ volume_label = ""
    /\ opacity = 1
    /\ volume_label_opacity = -1      \* attribute not set before start_mute_timer
    /\ timers = 0
    /\ volume \in volumes
    /\ mute \in BOOLEAN
    /\ live = EngineBootConfig
    /\ pushed = <<>>
    /\ last = NoHandler
    /\ run = NoRun
    /\ home \in Homes

InitWith(volumes) == ProgramInit(volumes) /\ synth = NoCall

---------------------------------------------------------------------------
(* MyWindow.__init__                                                       *)

\* self.cdsp.connect()
Connect(ok) ==
    /\ pc = "connect"
    /\ pc' = IF ok THEN "create_configs" ELSE "aborted"
    /\ UNCHANGED <<config_map, config_label, source_label, volume_label, opacity,
                   volume_label_opacity, timers, volume, mute, live, pushed,
                   last, run, synth, home>>

\* mutant: a rejected description ends the loop instead of leaving __init__
create_configs_step_break(ok) ==
    /\ pc = "create_configs"
    /\ LET k == Cardinality(DOMAIN config_map) + 1
           key == CatalogKeys[k]
       IN  IF ok
           THEN /\ config_map' = config_map @@ (key :> camilla_config_obj(key[1], key[2]))
                /\ pc' = IF k = Len(CatalogKeys) THEN "init_rest" ELSE "create_configs"
           ELSE /\ pc' = "init_rest"
                /\ UNCHANGED config_map
    /\ UNCHANGED <<config_label, source_label, volume_label, opacity,
                   volume_label_opacity, timers, volume, mute, live, pushed,
                   last, run, synth, home>>

\* one iteration of the loops of create_configs: synthesize, validate, store.
\* validate_config raises when the engine rejects the description, and the
\* exception leaves __init__.
create_configs_step(ok) ==
    /\ pc = "create_configs"
    /\ LET k == Cardinality(DOMAIN config_map) + 1
           key == CatalogKeys[k]
       IN  IF ok
           THEN /\ config_map' = config_map @@ (key :> camilla_config_obj(key[1], key[2]))
                /\ pc' = IF k = Len(CatalogKeys) THEN "init_rest" ELSE "create_configs"
           ELSE /\ pc' = "aborted"
                /\ UNCHANGED config_map
    /\ UNCHANGED <<config_label, source_label, volume_label, opacity,
                   volume_label_opacity, timers, volume, mute, live, pushed,
                   last, run, synth, home>>

\* load_config_object: whether the lookup and the push both succeed
LoadSucceeds(config, source, ok) ==
    ok /\ <<config, source>> \in DOMAIN config_map

\* mutant: the source label is not refreshed
load_config_object_stale_source(config, source, ok) ==
    IF LoadSucceeds(config, source, ok)
    THEN /\ live' = config_map[<<config, source>>]
         /\ config_label' = config
         /\ pushed' = <<config, source>>
         /\ UNCHANGED source_label
    ELSE UNCHANGED <<live, config_label, source_label, pushed>>

\* mutant: the labels are set before the push, so a push that raises leaves
\* them changed
load_config_object_labels_first(config, source, ok) ==
    IF <<config, source>> \in DOMAIN config_map
    THEN /\ config_label' = config
         /\ source_label' = source
         /\ IF ok
            THEN live' = config_map[<<config, source>>] /\ pushed' = <<config, source>>
            ELSE UNCHANGED <<live, pushed>>
    ELSE UNCHANGED <<live, config_label, source_label, pushed>>

\* mutant: the balance filters of the live description are carried over into
\* the description that is pushed
load_config_object_keeps_balance(config, source, ok) ==
    IF LoadSucceeds(config, source, ok)
    THEN /\ live' = [config_map[<<config, source>>] EXCEPT !.filters =
                        [n \in DOMAIN live.filters \cap {"balance0", "balance1"} |->
                            live.filters[n]] @@ @]
         /\ config_label' = config
         /\ source_label' = source
         /\ pushed' = <<config, source>>
    ELSE UNCHANGED <<live, config_label, source_label, pushed>>

\* load_config_object: the labels follow the push, so a push that raises
\* leaves them
load_config_object(config, source, ok) ==
    IF LoadSucceeds(config, source, ok)
    THEN /\ live' = config_map[<<config, source>>]
         /\ config_label' = config
         /\ source_label' = source
         /\ pushed' = <<config, source>>
    ELSE UNCHANGED <<live, config_label, source_label, pushed>>

\* f"{source}-{config.replace(' ', '-')}.yml" for the labels of MENU_MAP
basename(config, source) ==
    source \o "-" \o (IF config = "2.1 DRC" THEN "2.1-DRC" ELSE config) \o ".yml"

\* set_config_name and load_config_by_desc are called from nowhere: the one
\* call, in menu_step, is commented out and no key binding names them, so no
\* next-state relation contains them.
set_config_name(config, source) ==
    /\ config_label' = config
    /\ source_label' = source

\* ok = FALSE: the engine raises in set_config_name or in reload.  The engine
\* loads the file itself, so the live description is whatever the file holds
load_config_by_desc(config, source, ok) ==
    IF ok
    THEN /\ live' = [config_path |-> join(CONFIG_DIR, basename(config, source))]
         /\ set_config_name(config, source)
    ELSE UNCHANGED <<live, config_label, source_label>>

\* get_screen_size(): the size of the first monitor; with no monitor the
\* loop that holds the only return does not run and the result is None
get_screen_size(n_monitors) == IF n_monitors > 0 THEN "size" ELSE "None"

\* the rest of __init__ after create_configs: set_volume(), the first
\* load_config_object, `width, height = get_screen_size()`, which raises
\* TypeError on None, then start_mute_timer()
InitRest(okVol, okPush, n_monitors) ==
    /\ pc = "init_rest"
    /\ LET config == MENU_MAP.config[1]
           source == MENU_MAP.source[1]
       IN  IF ~okVol
           THEN /\ pc' = "aborted"
                /\ UNCHANGED <<volume_label, live, config_label, source_label,
                               pushed, volume_label_opacity, timers>>
           ELSE /\ volume_label' = VolFormat(volume)
                /\ load_config_object(config, source, okPush)
                /\ IF /\ LoadSucceeds(config, source, okPush)
                      /\ get_screen_size(n_monitors) # "None"
                   THEN /\ pc' = "running"
                        /\ volume_label_opacity' = opacity
                        /\ timers' = timers + 1
                   ELSE /\ pc' = "aborted"
                        /\ UNCHANGED <<volume_label_opacity, timers>>
    /\ UNCHANGED <<config_map, opacity, volume, mute, last, run, synth, home>>

Startup ==
    \/ \E ok \in BOOLEAN : Connect(ok)
    \/ \E ok \in BOOLEAN : create_configs_step(ok)
    \/ \E okVol, okPush \in BOOLEAN, n_monitors \in 0..MaxMonitors :
            InitRest(okVol, okPush, n_monitors)

---------------------------------------------------------------------------
(* Volume keys                                                             *)

\* set_volume(): refresh the volume label from the engine
set_volume == volume_label' = VolFormat(volume')

\* on_vol_down: the volume the engine holds afterwards
vol_down_target(vol) == IF vol > MIN_VOL THEN vol - VOL_STEP ELSE vol

\* mutant: no upper guard
vol_up_target_unclamped(vol) == vol + VOL_STEP

\* on_vol_up: the volume the engine holds afterwards
vol_up_target(vol) == IF vol <= -VOL_STEP THEN vol + VOL_STEP ELSE vol

\* failAt: where the engine raises (0: nowhere, 1: in the first get_volume or
\* in cdsp.set_volume, before anything is written, 2: in the get_volume of
\* self.set_volume(), after the write and before the label is refreshed)
on_vol_down(failAt) ==
    /\ pc = "running"
    /\ IF failAt = 1
       THEN UNCHANGED <<volume, volume_label>>
       ELSE /\ volume' = vol_down_target(volume)
            /\ IF failAt = 0 THEN set_volume ELSE UNCHANGED volume_label
    /\ last' = Handled("vol_down", failAt = 0)
    /\ UNCHANGED <<pc, config_map, config_label, source_label, opacity,
                   volume_label_opacity, timers, mute, live, pushed, run, synth, home>>

on_vol_up(failAt) ==
    /\ pc = "running"
    /\ IF failAt = 1
       THEN UNCHANGED <<volume, volume_label>>
       ELSE /\ volume' = vol_up_target(volume)
            /\ IF failAt = 0 THEN set_volume ELSE UNCHANGED volume_label
    /\ last' = Handled("vol_up", failAt = 0)
    /\ UNCHANGED <<pc, config_map, config_label, source_label, opacity,
                   volume_label_opacity, timers, mute, live, pushed, run, synth, home>>

---------------------------------------------------------------------------
(* Mute key and the blink timeout                                          *)

\* start_mute_timer (the second definition in the class body, which is the
\* one bound to the name)
start_mute_timer ==
    /\ volume_label_opacity' = opacity
    /\ timers' = timers + 1

\* failAt: where the engine raises (0: nowhere, 1: in the first get_mute or
\* in set_mute, before anything is written, 2: in the second get_mute)
on_mute(failAt) ==
    /\ pc = "running"
    /\ IF failAt = 1
       THEN UNCHANGED <<mute, volume_label_opacity, timers>>
       ELSE /\ mute' = ~mute
            /\ IF failAt = 0 /\ mute'
               THEN start_mute_timer
               ELSE UNCHANGED <<volume_label_opacity, timers>>
    /\ last' = Handled("mute", failAt = 0)
    /\ UNCHANGED <<pc, config_map, config_label, source_label, volume_label,
                   opacity, volume, live, pushed, run, synth, home>>

\* what a run of blink_vol can come to: get_mute returns and blink_vol returns
\* True or False, or get_mute raises and blink_vol returns nothing, after
\* which the caller of the callback either keeps the timeout or removes it
BlinkOutcomes == {"returns", "raises_kept", "raises_removed"}

\* blink_vol, run by one pending timeout; returning False removes the timeout
blink_vol(outcome) ==
    /\ pc = "running"
    /\ timers > 0
    /\ IF outcome = "returns"
       THEN IF ~mute
            THEN /\ opacity' = volume_label_opacity
                 /\ timers' = timers - 1
            ELSE /\ opacity' = IF opacity # 0 THEN 0 ELSE volume_label_opacity
                 /\ UNCHANGED timers
       ELSE /\ UNCHANGED opacity
            /\ timers' = IF outcome = "raises_removed" THEN timers - 1 ELSE timers
    /\ UNCHANGED <<pc, config_map, config_label, source_label, volume_label,
                   volume_label_opacity, volume, mute, live, pushed, last, run, synth, home>>

blink_timeout == \E outcome \in BlinkOutcomes : blink_vol(outcome)

---------------------------------------------------------------------------
(* Menu keys                                                               *)

\* mutant: the index is clamped at the ends of the menu instead of wrapping
next_item_clamped(menu_items, current, step) ==
    LET i == IndexOf(menu_items, current) + step
    IN  menu_items[IF i < 1 THEN 1 ELSE IF i > Len(menu_items) THEN Len(menu_items) ELSE i]

\* mutant: the modulus is one short of the menu length
next_item_short(menu_items, current, step) ==
    menu_items[((IndexOf(menu_items, current) - 1 + step) % (Len(menu_items) - 1)) + 1]

\* menu_step: the entry that becomes current
next_item(menu_items, current, step) ==
    menu_items[((IndexOf(menu_items, current) - 1 + step) % Len(menu_items)) + 1]

\* mutant: current_map starts from the first entry of each menu instead of
\* the label texts
StepTarget_from_defaults(key, step) ==
    LET labels == [config |-> config_label, source |-> source_label]
        current_map == [config |-> MENU_MAP.config[1], source |-> MENU_MAP.source[1]]
    IN  [current_map EXCEPT ![key] = next_item(MENU_MAP[key], labels[key], step)]

\* the selection menu_step hands to load_config_object
StepTarget(key, step) ==
    LET current_map == [config |-> config_label, source |-> source_label]
    IN  [current_map EXCEPT ![key] = next_item(MENU_MAP[key], current_map[key], step)]

\* tuple.index raises when the label text is no menu entry
StepFound(key) ==
    [config |-> config_label, source |-> source_label][key] \in Range(MENU_MAP[key])

MenuStepSucceeds(key, step, ok) ==
    /\ StepFound(key)
    /\ LoadSucceeds(StepTarget(key, step).config, StepTarget(key, step).source, ok)

menu_step(key, step, ok) ==
    /\ pc = "running"
    /\ IF StepFound(key)
       THEN load_config_object(StepTarget(key, step).config,
                               StepTarget(key, step).source, ok)
       ELSE UNCHANGED <<live, config_label, source_label, pushed>>
    /\ UNCHANGED <<pc, config_map, volume_label, opacity, volume_label_opacity,
                   timers, volume, mute>>

\* get_balance: the filters it reads from a description
HasBalance(config_obj) == {"balance0", "balance1"} \subseteq DOMAIN config_obj.filters

Gain0(config_obj) == config_obj.filters["balance0"].parameters.gain
Gain1(config_obj) == config_obj.filters["balance1"].parameters.gain

MenuKey(op) == IF op \in {"config_next", "config_prev"} THEN "config" ELSE "source"
MenuDir(op) == IF op \in {"config_next", "source_next"} THEN 1 ELSE -1
MenuOps == {"config_next", "config_prev", "source_next", "source_prev"}

\* on_config_next, on_config_prev, on_source_next, on_source_prev
on_menu_key(op, ok) ==
    /\ menu_step(MenuKey(op), MenuDir(op), ok)
    /\ last' = [op |-> op,
                ok |-> MenuStepSucceeds(MenuKey(op), MenuDir(op), ok),
                discarded |-> /\ MenuStepSucceeds(MenuKey(op), MenuDir(op), ok)
                              /\ HasBalance(live)
                              /\ (Gain0(live) # 0 \/ Gain1(live) # 0)]

on_config_next == \E ok \in BOOLEAN : on_menu_key("config_next", ok) /\ UNCHANGED <<run, synth, home>>
on_config_prev == \E ok \in BOOLEAN : on_menu_key("config_prev", ok) /\ UNCHANGED <<run, synth, home>>
on_source_next == \E ok \in BOOLEAN : on_menu_key("source_next", ok) /\ UNCHANGED <<run, synth, home>>
on_source_prev == \E ok \in BOOLEAN : on_menu_key("source_prev", ok) /\ UNCHANGED <<run, synth, home>>

---------------------------------------------------------------------------
(* Balance keys                                                            *)

\* mutant: each key attenuates the opposite side and leaves the other gain
balance_gains_naive(side, gain0, gain1) ==
    IF side = "left"
    THEN <<gain0, gain1 - VOL_STEP>>
    ELSE <<gain0 - VOL_STEP, gain1>>

\* set_balance: <<new_gain0, new_gain1>>
balance_gains(side, gain0, gain1) ==
    IF side = "left"
    THEN IF gain0 = 0 THEN <<0, gain1 - VOL_STEP>> ELSE <<gain0 + VOL_STEP, 0>>
    ELSE IF gain1 = 0 THEN <<gain0 - VOL_STEP, 0>> ELSE <<0, gain1 + VOL_STEP>>

WithGains(config_obj, gains) ==
    [config_obj EXCEPT !.filters["balance0"].parameters.gain = gains[1],
                       !.filters["balance1"].parameters.gain = gains[2]]

\* mutant: the description read back is the catalog's own object, so the
\* write of the gains lands in the catalog entry too
set_balance_aliased(side, ok) ==
    /\ pc = "running"
    /\ IF ok /\ HasBalance(live)
       THEN /\ live' = WithGains(live, balance_gains(side, Gain0(live), Gain1(live)))
            /\ config_map' = [config_map EXCEPT ![pushed] = live']
       ELSE UNCHANGED <<live, config_map>>
    /\ UNCHANGED <<pc, config_label, source_label, volume_label,
                   opacity, volume_label_opacity, timers, volume, mute, pushed, run, synth, home>>

\* ok = FALSE: the engine raises in get_config or in set_config, before the
\* live description is replaced.  get_balance raises KeyError when the live
\* description has no balance0 / balance1 filter.
BalanceSucceeds(ok) == ok /\ HasBalance(live)

set_balance(side, ok) ==
    /\ pc = "running"
    /\ IF BalanceSucceeds(ok)
       THEN live' = WithGains(live, balance_gains(side, Gain0(live), Gain1(live)))
       ELSE UNCHANGED live
    /\ UNCHANGED <<pc, config_map, config_label, source_label, volume_label,
                   opacity, volume_label_opacity, timers, volume, mute, pushed, run, synth, home>>

on_nav_left(ok) ==
    /\ set_balance("left", ok)
    /\ last' = Handled("nav_left", BalanceSucceeds(ok))

on_nav_right(ok) ==
    /\ set_balance("right", ok)
    /\ last' = Handled("nav_right", BalanceSucceeds(ok))

\* The engine is shared: another client of the engine gives the live
\* description the two balance gain filters that get_balance reads, both at
\* 0.0 dB.  create_config never creates them.
BalanceFilter == [type |-> "Gain", parameters |-> [gain |-> 0, inverted |-> FALSE]]

EngineGetsBalanceFilters ==
    /\ pc = "running"
    /\ ~HasBalance(live)
    /\ live' = [live EXCEPT !.filters = ("balance0" :> BalanceFilter)
                                        @@ ("balance1" :> BalanceFilter) @@ @]
    /\ UNCHANGED <<pc, config_map, config_label, source_label, volume_label,
                   opacity, volume_label_opacity, timers, volume, mute, pushed,
                   last, run, synth, home>>

---------------------------------------------------------------------------
(* Keys whose handler only prints, and keys bound to no action             *)

\* on_track_play, on_track_next, on_track_prev, on_track_stop, on_menu,
\* on_nav_up, on_nav_down, on_nav_select, on_nav_exit: each prints its name
on_print_only ==
    /\ pc = "running"
    /\ last' = Handled("print_only", TRUE)
    /\ UNCHANGED <<pc, config_map, config_label, source_label, volume_label,
                   opacity, volume_label_opacity, timers, volume, mute, live,
                   pushed, run, synth, home>>

\* on_key_press_event with a key whose KEYBINDINGS entry is None or missing
on_unbound_key ==
    /\ pc = "running"
    /\ last' = Handled("unbound", TRUE)
    /\ UNCHANGED <<pc, config_map, config_label, source_label, volume_label,
                   opacity, volume_label_opacity, timers, volume, mute, live,
                   pushed, run, synth, home>>

---------------------------------------------------------------------------
(* Specifications                                                          *)

\* the windows the bounds put on the exploration of Spec
VolWindow == volume > -(MaxVolSteps * VOL_STEP)
TimerWindow == mute \/ timers < MaxTimers
\* where only the volume keys run the volume is not windowed, and a refresh
\* of the volume label is explored failing while the label stays within
\* MaxStaleSteps steps of the volume the press writes
LabelWindow(target) == \E vol \in (target - MaxStaleSteps * VOL_STEP)..(target + MaxStaleSteps * VOL_STEP) : volume_label = VolFormat(vol)
BalanceWindow(side) ==
    HasBalance(live) =>
        \A k \in 1..2 : balance_gains(side, Gain0(live), Gain1(live))[k]
                            >= -(MaxBalanceSteps * VOL_STEP)

VolKeys ==
    \/ \E failAt \in 0..2 :
            /\ failAt = 2 => LabelWindow(vol_up_target(volume))
            /\ on_vol_up(failAt)
    \/ \E failAt \in 0..2 :
            /\ failAt = 2 => LabelWindow(vol_down_target(volume))
            /\ on_vol_down(failAt)

Init == InitWith({0})

Next ==
    \/ Startup
    \/ \E failAt \in 0..2 : on_vol_up(failAt)
    \/ VolWindow /\ \E failAt \in 0..2 : on_vol_down(failAt)
    \/ TimerWindow /\ \E failAt \in 0..2 : on_mute(failAt)
    \/ blink_timeout
    \/ on_config_next
    \/ on_config_prev
    \/ on_source_next
    \/ on_source_prev
    \/ BalanceWindow("left") /\ \E ok \in BOOLEAN : on_nav_left(ok)
    \/ BalanceWindow("right") /\ \E ok \in BOOLEAN : on_nav_right(ok)
    \/ EngineGetsBalanceFilters
    \/ on_print_only
    \/ on_unbound_key

Spec == Init /\ [][Next]_vars

\* The keys that read or write the live description (menu and balance keys),
\* with the engine's other client; the volume and mute keys and the blink
\* timeout write none of config_map, live, pushed and the two labels
NextConfig ==
    \/ Startup
    \/ on_config_next
    \/ on_config_prev
    \/ on_source_next
    \/ on_source_prev
    \/ BalanceWindow("left") /\ \E ok \in BOOLEAN : on_nav_left(ok)
    \/ BalanceWindow("right") /\ \E ok \in BOOLEAN : on_nav_right(ok)
    \/ EngineGetsBalanceFilters

SpecConfig == Init /\ [][NextConfig]_vars

\* Every key handler, without the blink timeout
NextKeys ==
    \/ Startup
    \/ \E failAt \in 0..2 : on_vol_up(failAt)
    \/ VolWindow /\ \E failAt \in 0..2 : on_vol_down(failAt)
    \/ TimerWindow /\ \E failAt \in 0..2 : on_mute(failAt)
    \/ on_config_next
    \/ on_config_prev
    \/ on_source_next
    \/ on_source_prev
    \/ BalanceWindow("left") /\ \E ok \in BOOLEAN : on_nav_left(ok)
    \/ BalanceWindow("right") /\ \E ok \in BOOLEAN : on_nav_right(ok)
    \/ EngineGetsBalanceFilters
    \/ on_print_only
    \/ on_unbound_key

SpecKeys == Init /\ [][NextKeys]_vars

\* Volume keys alone, the engine starting at either end of the 0.5 dB grid
InitVolGrid == InitWith({0, MIN_VOL})
NextVol == Startup \/ VolKeys
SpecVolGrid == InitVolGrid /\ [][NextVol]_vars

\* Volume keys alone, the engine starting at any volume of [-99.5, 0.0] in
\* steps of 0.1 dB
InitVol == InitWith(MIN_VOL..0)
SpecVol == InitVol /\ [][NextVol]_vars

\* Menu keys alone, with the run of identical successful steps recorded
tracked_menu_key(op, ok) ==
    /\ on_menu_key(op, ok)
    /\ run' = IF ~MenuStepSucceeds(MenuKey(op), MenuDir(op), ok)
              THEN NoRun
              ELSE IF run.op = op /\ run.n < Len(MENU_MAP[MenuKey(op)])
                   THEN [run EXCEPT !.n = @ + 1]
                   ELSE [op |-> op, n |-> 1, config |-> config_label,
                         source |-> source_label]
    /\ UNCHANGED <<synth, home>>

NextMenu ==
    \/ Startup
    \/ \E op \in MenuOps, ok \in BOOLEAN : tracked_menu_key(op, ok)

SpecMenu == Init /\ [][NextMenu]_vars

\* The mute key and the blink timeout, with the menu keys as the other
\* writers of the labels and of the live description.  The GLib main loop
\* runs every pending timeout when its 500 ms are over, hence the fairness
\* on blink_timeout
BlinkWindow == mute \/ timers < MaxBlinkTimers

NextMute ==
    \/ Startup
    \/ BlinkWindow /\ \E failAt \in 0..2 : on_mute(failAt)
    \/ blink_timeout
    \/ on_config_next
    \/ on_config_prev
    \/ on_source_next
    \/ on_source_prev

SpecMute == Init /\ [][NextMute]_vars /\ WF_vars(blink_timeout)

\* create_config called on its own, before the window exists: the four
\* routings, both sources, with and without correction, two playback devices
\* and 1..MaxPlaybackChannels playback channels
SynthArgs ==
    [routing : {"Mono", "2.0", "2.1", "2.2"},
     input_source : {"Stream", "Phono"},
     correction : {"DRC", ""},
     playback_device : {PLAYBACK_DEVICE, "hw:Headphone,0"},
     playback_channels : 1..MaxPlaybackChannels]

InitSynth ==
    /\ ProgramInit({0})
    /\ synth \in {[op |-> "create_config", args |-> a, done |-> FALSE] : a \in SynthArgs}

call_create_config ==
    /\ synth.op = "create_config"
    /\ ~synth.done
    /\ synth' = [op |-> "create_config",
                 args |-> synth.args,
                 done |-> TRUE,
                 result |-> create_config(synth.args.routing, synth.args.input_source,
                                          synth.args.correction, synth.args.playback_device,
                                          synth.args.playback_channels, SAMPLERATE,
                                          CROSSOVER_FREQUENCY, MAINS_DELAY, DRC_FILTER)]
    /\ UNCHANGED <<pc, config_map, config_label, source_label, volume_label, opacity,
                   volume_label_opacity, timers, volume, mute, live, pushed, last, run,
                   home>>

NextSynth == call_create_config

SpecSynth == InitSynth /\ [][NextSynth]_vars

\* get_channel_map called on its own: destination and input sequences of up
\* to MaxMapLen channel numbers, both values of mono, the two gains the
\* source passes (0.0 and -6.0 dB)
RECURSIVE SeqsUpTo(_, _)
SeqsUpTo(S, n) ==
    IF n = 0
    THEN {<<>>}
    ELSE SeqsUpTo(S, n - 1) \cup {Append(q, x) : q \in SeqsUpTo(S, n - 1), x \in S}

MapArgs ==
    [destinations : SeqsUpTo(0..MaxMapChannel, MaxMapLen),
     input_channels : SeqsUpTo(0..MaxMapChannel, MaxMapLen),
     mono : BOOLEAN,
     gain : {0, -60}]

InitMap ==
    /\ ProgramInit({0})
    /\ synth \in {[op |-> "get_channel_map", args |-> a, done |-> FALSE] : a \in MapArgs}

call_get_channel_map ==
    /\ synth.op = "get_channel_map"
    /\ ~synth.done
    /\ synth' = [op |-> "get_channel_map",
                 args |-> synth.args,
                 done |-> TRUE,
                 result |-> get_channel_map(synth.args.destinations,
                                            synth.args.input_channels,
                                            synth.args.mono, synth.args.gain)]
    /\ UNCHANGED <<pc, config_map, config_label, source_label, volume_label, opacity,
                   volume_label_opacity, timers, volume, mute, live, pushed, last, run,
                   home>>

NextMap == call_get_channel_map

SpecMap == InitMap /\ [][NextMap]_vars

---------------------------------------------------------------------------
(* Properties                                                              *)

\* C1: with the engine volume starting on the 0.5 dB grid (at 0.0 dB or at
\* the floor of -99.5 dB), the volume stays inside [-99.5, 0.0] under every
\* sequence of volume keys, vol_up never lowers it, vol_down never raises
\* it, and each key changes it by exactly 0.5 dB or not at all
C1_VolumeSteppingClamped ==
    [][/\ volume' \in MIN_VOL..0
       /\ \A failAt \in 0..2 :
            /\ on_vol_up(failAt) => volume' \in {volume, volume + VOL_STEP}
            /\ on_vol_down(failAt) => volume' \in {volume, volume - VOL_STEP}]_vars

\* a vol_down has run and the volume is at the floor
C1_Witness ==
    /\ pc = "running"
    /\ last = Handled("vol_down", TRUE)
    /\ volume = MIN_VOL
    /\ volume_label = "-99.5"

\* C2 (the claim as stated): from any engine volume of [-99.5, 0.0], on or
\* off the 0.5 dB grid, the volume keys never take the engine volume out of
\* [-99.5, 0.0]
C2_VolumeStaysInRange == volume \in MIN_VOL..0

\* the positions of a menu walked one entry at a time, wrapping at the ends
RECURSIVE Walk(_, _, _)
Walk(items, x, d) ==
    IF d = 0 THEN x
    ELSE IF d > 0
         THEN Walk(items,
                   IF IndexOf(items, x) = Len(items) THEN items[1]
                   ELSE items[IndexOf(items, x) + 1],
                   d - 1)
         ELSE Walk(items,
                   IF IndexOf(items, x) = 1 THEN items[Len(items)]
                   ELSE items[IndexOf(items, x) - 1],
                   d + 1)

\* C3: as many successful config_next in a row as the config menu has entries
\* (4) bring back the config shown at the start of the run and leave the
\* source; as many successful source_next as the source menu has entries (2)
\* bring back the source and leave the config
C3_CycleReturns ==
    /\ (run.op = "config_next" /\ run.n = Len(MENU_MAP.config)) =>
            (config_label = run.config /\ source_label = run.source)
    /\ (run.op = "source_next" /\ run.n = Len(MENU_MAP.source)) =>
            (source_label = run.source /\ config_label = run.config)

\* four config_next in a row, started away from the first entry
C3_Witness ==
    /\ run.op = "config_next"
    /\ run.n = 4
    /\ run.config = "2.0"
    /\ run.source = "Phono"
    /\ config_label = "2.0"

\* C4: after n successful steps of one menu key the entry shown is the one
\* n places after (next) or before (prev) the starting entry, counted
\* cyclically, the other menu is where it was; prev at the first config goes
\* to the last and once more to the second-to-last, next at the last config
\* goes to the first
C4_CyclicNavigation ==
    /\ run.n >= 1 =>
         LET key == MenuKey(run.op)
             shown == [config |-> config_label, source |-> source_label]
         IN  /\ shown[key] = Walk(MENU_MAP[key], run[key], MenuDir(run.op) * run.n)
             /\ \A other \in {"config", "source"} \ {key} : shown[other] = run[other]
    /\ (run.op = "config_prev" /\ run.config = "2.1 DRC" /\ run.n = 1) =>
         config_label = "Mono"
    /\ (run.op = "config_prev" /\ run.config = "2.1 DRC" /\ run.n = 2) =>
         config_label = "2.0"
    /\ (run.op = "config_next" /\ run.config = "Mono" /\ run.n = 1) =>
         config_label = "2.1 DRC"

\* two config_prev from the first entry
C4_Witness ==
    /\ run.op = "config_prev"
    /\ run.config = "2.1 DRC"
    /\ run.n = 2
    /\ config_label = "2.0"

\* C5: the balance filters starting at (0.0, 0.0), after any sequence of
\* balance keys at least one of the two live gains is 0.0
C5_OneSideAtZero ==
    HasBalance(live) => (Gain0(live) = 0 \/ Gain1(live) = 0)

\* nav_right has brought the balance back to the centre, which it does only
\* from a state where nav_left had attenuated the right side
C5_Witness ==
    /\ last = Handled("nav_right", TRUE)
    /\ HasBalance(live)
    /\ Gain0(live) = 0
    /\ Gain1(live) = 0

\* a description without the two balance filters
WithoutBalance(config_obj) ==
    [config_obj EXCEPT !.filters =
        [n \in DOMAIN config_obj.filters \ {"balance0", "balance1"} |->
            config_obj.filters[n]]]

\* C6: once __init__ has returned, the config and source shown are entries of
\* the menus, they are the key of the description load_config_object pushed
\* last (at startup or in a menu step), and the engine's live description is
\* the one synthesized for them (balance filters aside)
C6_ShownIsPushed ==
    pc = "running" =>
        /\ config_label \in Range(MENU_MAP.config)
        /\ source_label \in Range(MENU_MAP.source)
        /\ pushed = <<config_label, source_label>>
        /\ WithoutBalance(live) = camilla_config_obj(config_label, source_label)

\* a source step has succeeded away from the initial selection
C6_Witness ==
    /\ pc = "running"
    /\ last.op = "source_prev"
    /\ last.ok
    /\ pushed = <<"2.0", "Phono">>
    /\ config_label = "2.0"
    /\ source_label = "Phono"

\* C7: a successful menu step leaves the engine with exactly the catalog
\* entry of the new selection as create_configs built it, without balance
\* gains written before; and no step of the running program changes the
\* catalog
C7_CatalogReloadedUnchanged ==
    [][/\ pc = "running" => config_map' = config_map
       /\ \A op \in MenuOps :
            (on_menu_key(op, TRUE) /\ MenuStepSucceeds(MenuKey(op), MenuDir(op), TRUE)) =>
                /\ live' = config_map'[<<config_label', source_label'>>]
                /\ live' = camilla_config_obj(config_label', source_label')
                /\ ~HasBalance(live')]_vars

\* a menu step has replaced a live description that carried a balance gain
C7_Witness ==
    /\ last.op \in MenuOps
    /\ last.ok
    /\ last.discarded
    /\ live = config_map[<<config_label, source_label>>]
    /\ ~HasBalance(live)

\* C8: a menu step whose push raises leaves the config and source shown, the
\* key last pushed and the live description as they were, and the program
\* stays in its main loop, where the next key is handled from that position
C8_FailedPushKeepsPosition ==
    [][\A op \in MenuOps :
         on_menu_key(op, FALSE) =>
            /\ config_label' = config_label
            /\ source_label' = source_label
            /\ pushed' = pushed
            /\ live' = live
            /\ pc' = "running"
            /\ pushed' = <<config_label', source_label'>>]_vars

\* a push has raised away from the initial selection
C8_Witness ==
    /\ pc = "running"
    /\ last.op = "config_next"
    /\ ~last.ok
    /\ config_label = "2.1"
    /\ source_label = "Phono"

CatalogComplete ==
    /\ DOMAIN config_map = Range(CatalogKeys)
    /\ \A key \in DOMAIN config_map : config_map[key] = camilla_config_obj(key[1], key[2])

\* C9: nothing is pushed to the engine and no key is handled before every
\* pair of the menu has been synthesized and validated; when a validation
\* fails (the process is over with the catalog incomplete) nothing has been
\* pushed, and once the process is over no key is ever handled
C9_StartupAllOrNothing ==
    /\ (pc = "running" \/ live # EngineBootConfig \/ pushed # <<>> \/ last # NoHandler)
            => CatalogComplete
    /\ (pc = "aborted" /\ ~CatalogComplete) =>
            /\ live = EngineBootConfig
            /\ pushed = <<>>
    /\ pc = "aborted" =>
            /\ last = NoHandler
            /\ ~ENABLED Next

\* the validation of the sixth pair has failed
C9_Witness ==
    /\ pc = "aborted"
    /\ Cardinality(DOMAIN config_map) = 5
    /\ live = EngineBootConfig

\* a description whose references resolve
Consistent(config_obj) ==
    /\ \A k \in 1..Len(config_obj.pipeline) :
         LET step == config_obj.pipeline[k]
         IN  /\ step.type = "Filter" => Range(step.names) \subseteq DOMAIN config_obj.filters
             /\ step.type = "Mixer" => step.name \in DOMAIN config_obj.mixers
    /\ \E k \in 1..Len(config_obj.pipeline) : config_obj.pipeline[k].type = "Mixer"
    /\ \A m \in DOMAIN config_obj.mixers :
         /\ config_obj.mixers[m].channels.in = config_obj.devices.capture.channels
         /\ config_obj.mixers[m].channels.out = config_obj.devices.playback.channels

\* C10: in every description of the catalog (the four configs by the two
\* sources, with the configured hardware parameters) each filter name of a
\* Filter step is a key of the filter bank, the Mixer step names a mixer of
\* the description, and the mixer's in / out channel counts are the capture /
\* playback channel counts of the devices
C10_CatalogConsistent ==
    \A key \in DOMAIN config_map : Consistent(config_map[key])

\* the whole catalog is built
C10_Witness ==
    /\ pc = "running"
    /\ DOMAIN config_map = Range(CatalogKeys)
    /\ "drc_1" \in DOMAIN config_map[<<"2.1 DRC", "Phono">>].filters

\* the descriptions the engine has validated during create_configs
Validated == {config_map[k] : k \in DOMAIN config_map}

\* the steps in which this program replaces the live description
StartupPush ==
    \E okPush \in BOOLEAN, n_monitors \in 0..MaxMonitors :
        InitRest(TRUE, okPush, n_monitors) /\ pushed' # pushed
MenuPush ==
    \E op \in MenuOps :
        on_menu_key(op, TRUE) /\ MenuStepSucceeds(MenuKey(op), MenuDir(op), TRUE)
BalancePush == BalanceSucceeds(TRUE) /\ (on_nav_left(TRUE) \/ on_nav_right(TRUE))

\* C16 as stated: every description this program makes live, at startup, by
\* a menu step or by a balance write-back, is one the engine validated
\* during create_configs
C16_OnlyValidatedPushed ==
    [][(StartupPush \/ MenuPush \/ BalancePush) => live' \in Validated]_vars

\* C16 amended: every description made live at startup or by a menu step is
\* one the engine validated during create_configs; a balance write-back
\* makes live the description read back from the engine with its two
\* balance gains changed, which is none of the validated ones
C16_StartupAndMenuPushValidated ==
    [][/\ (StartupPush \/ MenuPush) => live' \in Validated
       /\ BalancePush => /\ live' \notin Validated
                         /\ WithoutBalance(live') = WithoutBalance(live)]_vars

\* a balance key has written the live description back with a changed gain
C16_Witness ==
    /\ last = Handled("nav_left", TRUE)
    /\ HasBalance(live)
    /\ Gain1(live) = -VOL_STEP
    /\ live \notin Validated
    /\ WithoutBalance(live) \in Validated

\* C17: once the window runs the catalog has exactly one entry for each pair
\* of a config and a source of the menus, 4 * 2 = 8 keys, the label texts
\* are entries of their menus, and the pair a menu step computes, for either
\* menu and either direction, is a key of the catalog
C17_CatalogLookupsSucceed ==
    pc = "running" =>
        /\ DOMAIN config_map = Range(MENU_MAP.config) \X Range(MENU_MAP.source)
        /\ Cardinality(DOMAIN config_map)
               = Len(MENU_MAP.config) * Len(MENU_MAP.source)
        /\ Cardinality(DOMAIN config_map) = 8
        /\ \A key \in {"config", "source"}, step \in {1, -1} :
             /\ StepFound(key)
             /\ <<StepTarget(key, step).config, StepTarget(key, step).source>>
                    \in DOMAIN config_map

\* the last pair of the catalog is live, reached by a step backwards from
\* the first source
C17_Witness ==
    /\ pc = "running"
    /\ last = Handled("source_prev", TRUE)
    /\ pushed = <<"Mono", "Phono">>
    /\ live = config_map[<<"Mono", "Phono">>]

\* C18: the config keys leave the source label, the source keys leave the
\* config label; the volume, mute and balance keys, the keys whose handler
\* only prints and the unbound keys leave both labels, and the last two
\* also leave the engine's volume, mute flag and live description.  (Each
\* handler records its name in last; the test of last' only spares the
\* evaluation of the handlers that cannot have made the step.)
C18_Frame ==
    [][/\ \A ok \in BOOLEAN :
            (last'.op \in {"config_next", "config_prev"}
             /\ (on_menu_key("config_next", ok) \/ on_menu_key("config_prev", ok)))
                => source_label' = source_label
       /\ \A ok \in BOOLEAN :
            (last'.op \in {"source_next", "source_prev"}
             /\ (on_menu_key("source_next", ok) \/ on_menu_key("source_prev", ok)))
                => config_label' = config_label
       /\ (last'.op \in {"nav_left", "nav_right", "vol_up", "vol_down", "mute",
                         "print_only", "unbound"}
           /\ ((\E ok \in BOOLEAN : on_nav_left(ok) \/ on_nav_right(ok))
               \/ (\E failAt \in 0..2 : on_vol_up(failAt) \/ on_vol_down(failAt)
                                         \/ on_mute(failAt))
               \/ on_print_only \/ on_unbound_key))
              => UNCHANGED <<config_label, source_label>>
       /\ (last'.op \in {"print_only", "unbound"} /\ (on_print_only \/ on_unbound_key))
              => UNCHANGED <<volume, mute, live>>]_vars

\* a config key has moved the config while the second source is shown
C18_Witness ==
    /\ last = Handled("config_next", TRUE)
    /\ config_label = "2.1"
    /\ source_label = "Phono"
    /\ pushed = <<"2.1", "Phono">>

---------------------------------------------------------------------------
(* Properties of the synthesizer called on its own                         *)

CreateConfigDone == synth.op = "create_config" /\ synth.done

\* the position of the (first) Mixer step of a pipeline
MixerAt(pipeline) ==
    CHOOSE k \in 1..Len(pipeline) :
        pipeline[k].type = "Mixer" /\ \A j \in 1..(k - 1) : pipeline[j].type # "Mixer"

\* every channel a description refers to lies inside the channel count
\* declared for its stage
ChannelsInRange(config_obj) ==
    LET pipeline == config_obj.pipeline
        m == MixerAt(pipeline)
        mapping == config_obj.mixers[pipeline[m].name].mapping
        capture_channels == config_obj.devices.capture.channels
        playback_channels == config_obj.devices.playback.channels
    IN  /\ \A k \in 1..(m - 1) : pipeline[k].channel < capture_channels
        /\ \A k \in (m + 1)..Len(pipeline) : pipeline[k].channel < playback_channels
        /\ \A i \in 1..Len(mapping) :
             /\ mapping[i].dest < playback_channels
             /\ \A j \in 1..Len(mapping[i].sources) :
                  mapping[i].sources[j].channel < capture_channels

\* the highest channel number create_config writes for a routing and source,
\* plus one
ChannelsNeeded(args) ==
    IF args.input_source # "Stream" \/ args.routing = "2.2" THEN 4
    ELSE IF args.routing = "2.1" THEN 3
    ELSE 2

\* C11 as stated: every description create_config returns, for each of the
\* routings Mono, 2.0, 2.1, 2.2, each source and each playback channel
\* count, refers only to channels inside its declared counts: pre-mix Filter
\* steps and mixer sources below the capture channel count, mixer
\* destinations and post-mix Filter steps below the playback channel count
C11_ChannelsInRangeForAnyCount ==
    CreateConfigDone => ChannelsInRange(synth.result)

\* C11 amended: the description refers only to channels inside its declared
\* counts exactly when the playback channel count passed in covers the
\* channels the routing and source use (4 for a direct source or 2.2, 3 for
\* 2.1 from the stream, 2 otherwise); so it does for every routing and
\* source whenever the count is at least the configured PLAYBACK_CHANNELS
C11_ChannelsInRangeForEnoughChannels ==
    CreateConfigDone =>
        /\ ChannelsInRange(synth.result)
               <=> synth.args.playback_channels >= ChannelsNeeded(synth.args)
        /\ synth.args.playback_channels >= PLAYBACK_CHANNELS
               => ChannelsInRange(synth.result)

\* 2.2 from the direct source on a four channel device
C11_Witness ==
    /\ CreateConfigDone
    /\ synth.args.routing = "2.2"
    /\ synth.args.input_source = "Phono"
    /\ synth.args.playback_channels = PLAYBACK_CHANNELS
    /\ Len(synth.result.pipeline) = 7
    /\ ChannelsInRange(synth.result)

MapDone == synth.op = "get_channel_map" /\ synth.done

\* the contract of get_channel_map, the gain of the rules of the 1:1 pairing
\* left open
MapContract(args, result, zip_gain) ==
    IF args.mono
    THEN /\ Len(result) = Len(args.destinations)
         /\ \A k \in 1..Len(result) :
              /\ result[k].dest = args.destinations[k]
              /\ Len(result[k].sources) = Len(args.input_channels)
              /\ \A m \in 1..Len(result[k].sources) :
                   /\ result[k].sources[m].channel = args.input_channels[m]
                   /\ result[k].sources[m].gain = args.gain
                   /\ ~result[k].sources[m].inverted
                   /\ ~result[k].sources[m].mute
    ELSE /\ Len(result) = Min(Len(args.destinations), Len(args.input_channels))
         /\ \A k \in 1..Len(result) :
              /\ result[k].dest = args.destinations[k]
              /\ Len(result[k].sources) = 1
              /\ result[k].sources[1].channel = args.input_channels[k]
              /\ result[k].sources[1].gain = zip_gain

\* C12 as stated: with mono set get_channel_map returns one mapping per
\* destination, in order, each with one source rule per input at the given
\* gain, not inverted, not muted; without it min(len(destinations),
\* len(inputs)) mappings, the k-th pairing destination k with input k through
\* one source rule whose gain is 0.0 dB whatever the gain argument
C12_ZipGainIsZero ==
    MapDone => MapContract(synth.args, synth.result, 0)

\* C12 amended: as stated, except that the single source rule of the 1:1
\* pairing carries the gain argument too (0.0 dB only when the argument is
\* left at its default)
C12_ZipGainIsArgument ==
    MapDone => MapContract(synth.args, synth.result, synth.args.gain)

\* two destinations paired with one input at -6.0 dB
C12_Witness ==
    /\ MapDone
    /\ ~synth.args.mono
    /\ synth.args.gain = -60
    /\ Len(synth.args.destinations) = 2
    /\ Len(synth.args.input_channels) = 1
    /\ Len(synth.result) = 1
    /\ synth.result[1].sources[1].gain = -60

\* the kinds of the filters a Filter step applies, in order
StepKinds(config_obj, step) ==
    [k \in 1..Len(step.names) |->
        LET f == config_obj.filters[step.names[k]]
        IN  IF f.type = "BiquadCombo" THEN f.parameters.type ELSE f.type]

\* C13: the pipeline of every description is the pre-mix Filter steps, then
\* exactly one Mixer step, then the post-mix steps of the satellites, then
\* those of the subwoofers.  For 2.1 the mixer has the destinations 0, 1, 2
\* with 2 fed by both inputs, for 2.2 the destinations 0, 1, 2, 3 with 2 and
\* 3 fed 1:1; in both each satellite has a post-mix step [highpass, delay]
\* and each subwoofer one [lowpass].  For 2.0 and Mono the mixer has two
\* destinations, the Mixer step is last and the filter bank holds no
\* crossover or delay filter
C13_PipelineShape ==
    CreateConfigDone =>
        LET c == synth.result
            p == c.pipeline
            m == MixerAt(p)
            mapping == c.mixers[p[m].name].mapping
            inputs == <<p[1].channel, p[2].channel>>
            subs == IF synth.args.routing = "2.1" THEN <<2>> ELSE <<2, 3>>
        IN  /\ Cardinality({k \in 1..Len(p) : p[k].type = "Mixer"}) = 1
            /\ m = 3
            /\ \A k \in 1..Len(p) : k # m => p[k].type = "Filter"
            /\ \A i \in 1..Len(mapping) : Range(mapping[i].sources)
                   \subseteq {SourceRule(j, g) : j \in Range(inputs), g \in {0, -60}}
            /\ IF synth.args.routing \in {"2.1", "2.2"}
               THEN /\ [i \in 1..Len(mapping) |-> mapping[i].dest] = <<0, 1>> \o subs
                    /\ [k \in 1..(Len(p) - m) |-> p[m + k].channel] = <<0, 1>> \o subs
                    /\ \A k \in (m + 1)..(m + 2) :
                         StepKinds(c, p[k]) = <<"LinkwitzRileyHighpass", "Delay">>
                    /\ \A k \in (m + 3)..Len(p) :
                         StepKinds(c, p[k]) = <<"LinkwitzRileyLowpass">>
                    /\ IF synth.args.routing = "2.1"
                       THEN [j \in 1..Len(mapping[3].sources) |->
                                mapping[3].sources[j].channel] = inputs
                       ELSE \A i \in 3..4 :
                                [j \in 1..Len(mapping[i].sources) |->
                                    mapping[i].sources[j].channel] = <<inputs[i - 2]>>
               ELSE /\ [i \in 1..Len(mapping) |-> mapping[i].dest] = <<0, 1>>
                    /\ m = Len(p)
                    /\ \A n \in DOMAIN c.filters :
                         c.filters[n].type \notin {"BiquadCombo", "Delay"}

\* 2.1 with correction is synthesized: two satellite steps, one sub step
C13_Witness ==
    /\ CreateConfigDone
    /\ synth.args.routing = "2.1"
    /\ synth.args.correction = "DRC"
    /\ Len(synth.result.pipeline) = 6
    /\ synth.result.pipeline[6].names = <<"sublowpass">>

\* C14: the source alone fixes the capture side: 'Stream' captures 2
\* channels from the loopback device with inputs 0, 1; any other source
\* captures from the playback device, with its channel count, inputs 2, 3.
\* For 2.0 from the direct source without correction the filter bank holds
\* no crossover, delay or correction filter and the mixer has two
\* destinations, each fed by a single rule at 0.0 dB
C14_CaptureFollowsSource ==
    CreateConfigDone =>
        LET c == synth.result
            a == synth.args
            p == c.pipeline
            mapping == c.mixers[p[MixerAt(p)].name].mapping
            inputs == [k \in 1..(MixerAt(p) - 1) |-> p[k].channel]
        IN  /\ IF a.input_source = "Stream"
               THEN /\ c.devices.capture.device = "hw:Loopback,1"
                    /\ c.devices.capture.channels = 2
                    /\ inputs = <<0, 1>>
               ELSE /\ c.devices.capture.device = a.playback_device
                    /\ c.devices.capture.channels = a.playback_channels
                    /\ inputs = <<2, 3>>
            /\ \A i \in 1..Len(mapping) : \A j \in 1..Len(mapping[i].sources) :
                 mapping[i].sources[j].channel \in Range(inputs)
            /\ (a.routing = "2.0" /\ a.input_source # "Stream" /\ a.correction = "")
                 => /\ DOMAIN c.filters = {"volume"}
                    /\ c.filters["volume"].type = "Volume"
                    /\ Len(mapping) = 2
                    /\ \A i \in 1..2 :
                         /\ Len(mapping[i].sources) = 1
                         /\ mapping[i].sources[1].gain = 0

\* 2.0 from the direct source, uncorrected, on the second playback device
C14_Witness ==
    /\ CreateConfigDone
    /\ synth.args.routing = "2.0"
    /\ synth.args.input_source = "Phono"
    /\ synth.args.correction = ""
    /\ synth.args.playback_device = "hw:Headphone,0"
    /\ synth.result.devices.capture.device = "hw:Headphone,0"

---------------------------------------------------------------------------
(* Properties of the mute key and the blink timeout                        *)

\* C15 as stated: a mute key whose write reaches the engine negates the mute
\* flag and, when the result is muted, adds a pending tick; while the window
\* runs and the engine is muted a tick is pending; a tick removes itself
\* only when the engine is unmuted, and when the engine stays unmuted
\* eventually no tick is pending.  A tick writes neither the engine's mute
\* flag, volume or live description nor the config and source labels
C15_MuteBlinkLifecycle ==
    /\ [][/\ \A failAt \in {0, 2} :
               on_mute(failAt) => /\ mute' = ~mute
                                  /\ timers' = IF mute' THEN timers + 1 ELSE timers
          /\ blink_timeout => UNCHANGED <<mute, volume, live, config_label, source_label>>
          /\ timers' < timers => blink_timeout /\ ~mute]_vars
    /\ []((pc = "running" /\ mute) => timers >= 1)
    /\ <>[](~mute) => <>[](timers = 0)

\* C19 as stated: at most one blink tick is pending at any time
C19_AtMostOneTick == timers <= 1

\* C20 as stated: whenever the engine is unmuted and no tick is pending the
\* volume label has its original opacity, and the opacity saved when a blink
\* cycle starts is never 0
C20_OpacityRestored ==
    pc = "running" =>
        /\ volume_label_opacity # 0
        /\ (~mute /\ timers = 0) => opacity = 1

====
